---- MODULE Spec2Model ----
(***************************************************************************)
(* Model of src/hensel_lifting.py: the Hensel lifting routine hensel_lift, *)
(* the helper check_irrational and the script's __main__ driver; of the    *)
(* main() routines of validate_all.py (with run_script),                   *)
(* check_reproducibility.py and tripartite_validation_enhanced.py; of the  *)
(* checks of verify_3adic.py; and of SUSYHITInterface.run_calculation with *)
(* its caller in susy_hit_interface.py.                                    *)
(*                                                                         *)
(* A polynomial is the sequence of its integer coefficients, constant term *)
(* first: <<c0, c1, ..., cd>> stands for c0 + c1*x + ... + cd*x^d.  The    *)
(* sympy calls f.subs(x, k) and f.diff(x) are evaluation and formal        *)
(* differentiation of that sequence.  Python integers are unbounded; the   *)
(* bounds below keep every value far inside TLC's integers.                *)
(***************************************************************************)
EXTENDS Integers, Sequences, FiniteSets, TLC

VARIABLES
    caller,     \* who calls hensel_lift: "main" (the script) or "harness"
    f, p, n,    \* the arguments of the running call
    earlier,    \* harness only: the precision n of its first call
    later,      \* harness only: the precision n of its second call
    call,       \* 1 or 2: which call of the caller is running
    pc,         \* position in hensel_lift / the caller
    i,          \* loop variable of `for i in range(1, n)`
    sols,       \* the residue list of the current level
    new_sols,   \* the list being built for the next level
    mod,        \* p ** (i + 1)
    prev_mod,   \* p ** i
    k,          \* position of `for s in sols` (1-based index of the next s)
    result,     \* the list returned by the running / last call
    first,      \* harness only: the list returned by its first call
    out,        \* outcome of the caller: "running", "passed", or an exception
    rounds,     \* history: lift rounds started by the running call
    inv_args,   \* history: the values df_val the running call passed to pow
    sols_ref,   \* identity of the list object sols names (0: none yet)
    new_ref,    \* identity of the list object new_sols names (0: none yet)
    fresh,      \* identity the next list object created will get
    value,      \* caller "probe": the number given to check_irrational
    drv         \* the locals and exit status of a validation driver

vars == <<caller, f, p, n, earlier, later, call, pc, i, sols, new_sols, mod,
          prev_mod, k, result, first, out, rounds, inv_args, sols_ref,
          new_ref, fresh, value, drv>>

(* what hensel_lift and its callers never touch *)
others == <<value, drv>>

---------------------------------------------------------------------------
(* Bounds of the model *)

MaxCoef == 1
MaxDeg == 2
MaxP == 5
MaxN == 3

(* The driver's fixed arguments *)
MainP == 3
MainN == 5

(* largest integer part of the numbers given to check_irrational *)
MaxInt == 3

(* the lengths of the lists the validation drivers go through *)
NumValidations == 5
NumCritical == 7
NumOutputs == 6

---------------------------------------------------------------------------
(* Arithmetic helpers *)

RECURSIVE Pow(_, _)
Pow(b, e) == IF e <= 0 THEN 1 ELSE b * Pow(b, e - 1)

IsPrime(q) == q >= 2 /\ \A d \in 2..(q - 1) : q % d # 0

Range(s) == {s[j] : j \in 1..Len(s)}

(* f.subs(x, v): the value of the polynomial at v (Horner, exact integers) *)
RECURSIVE Eval(_, _)
Eval(ff, v) == IF Len(ff) = 0 THEN 0 ELSE ff[1] + v * Eval(Tail(ff), v)

(* f.diff(x): the formal derivative *)
Deriv(ff) == [j \in 1..(Len(ff) - 1) |-> j * ff[j + 1]]

(* range(p) taken as 1, ..., p (an off-by-one scan) *)
RangeSeqFromOne(pp) == IF pp <= 0 THEN <<>> ELSE [j \in 1..pp |-> j]

(* range(p) as a list: 0, 1, ..., p-1; empty when p <= 0 *)
RangeSeq(pp) == IF pp <= 0 THEN <<>> ELSE [j \in 1..pp |-> j - 1]


(* the scan appending to whatever list sols still names *)
ScanRootsKeepOld(ff, pp) ==
    sols \o SelectSeq(RangeSeq(pp), LAMBDA r : Eval(ff, r) % pp = 0)

(* k for k in range(p) if f.subs(x, k) % p == 0 *)
ScanRoots(ff, pp) == SelectSeq(RangeSeq(pp), LAMBDA r : Eval(ff, r) % pp = 0)

(* pow(df_val, -1, p): defined only when df_val is invertible modulo p;    *)
(* otherwise the call raises ValueError                                    *)
HasInverse(d, pp) == \E y \in 1..(pp - 1) : (d * y) % pp = 1

ModInverse(d, pp) == CHOOSE y \in 1..(pp - 1) : (d * y) % pp = 1

(* the lifting branch taken whatever df_val is *)
NonSingularAlways(df_val) == TRUE

(* the lifting branch taken only for df_val == 1 *)
NonSingularOnlyOne(df_val) == df_val = 1

(* the test `df_val != 0` selecting the lifting branch *)
NonSingular(df_val) == df_val # 0

(* t computed without the factor pow(df_val, -1, p) *)
LiftTNoInverse(f_val, prev, df_val, pp) == ((-f_val) \div prev) % pp

(* t computed without the minus sign *)
LiftTNoMinus(f_val, prev, df_val, pp) ==
    ((f_val \div prev) * ModInverse(df_val, pp)) % pp

(* t = (-f_val // prev_mod * pow(df_val, -1, p)) % p; unary minus binds    *)
(* first, then // and * from left to right; // is floor division           *)
LiftT(f_val, prev, df_val, pp) ==
    (((-f_val) \div prev) * ModInverse(df_val, pp)) % pp

(* t * prev_mod, the residue s being lifted left out *)
LiftedDropS(s, t, prev) == t * prev

(* s + t, the digit not scaled by prev_mod *)
LiftedNoScale(s, t, prev) == s + t

(* s + t * prev_mod *)
Lifted(s, t, prev) == s + t * prev

(* the elif test made modulo p instead of modulo p ** (i + 1) *)
KeepSingularModP(f_val, m) == f_val % p = 0

(* the test `f_val % mod == 0` of the elif branch *)
KeepSingular(f_val, m) == f_val % m = 0

---------------------------------------------------------------------------
(* Near-integer tests.  A number is [ip |-> floor, fp |-> fraction] with   *)
(* the fraction counted in units of 1/Scale, 0 <= fp < Scale.              *)

Scale == Pow(10, 8)

(* the tolerance 1e-6 in units of 1/Scale *)
Tol == Scale \div Pow(10, 6)

Real(s) == [ip |-> s, fp |-> 0]

(* round(v): to the nearest integer, ties to the even one *)
Round(v) ==
    IF 2 * v.fp < Scale THEN v.ip
    ELSE IF 2 * v.fp > Scale THEN v.ip + 1
    ELSE IF v.ip % 2 = 0 THEN v.ip ELSE v.ip + 1

(* abs(v - round(v)) in units of 1/Scale *)
AbsDev(v) == IF Round(v) = v.ip THEN v.fp ELSE Scale - v.fp

(* check_irrational with a tolerance of 1e-8 *)
check_irrationalTight(v) == AbsDev(v) > Scale \div Pow(10, 8)

(* check_irrational(k, tol=1e-6) *)
check_irrational(v) == AbsDev(v) > Tol

(* the comparison of the returned comprehension turned round *)
NearIntegerInverted(s) == AbsDev(Real(s)) > Tol

(* the condition of the returned comprehension: abs(s - round(s)) < 1e-6 *)
NearInteger(s) == AbsDev(Real(s)) < Tol

(* [s for s in sols if abs(s - round(s)) < 1e-6] *)
FilterResult(ss) == SelectSeq(ss, NearInteger)

---------------------------------------------------------------------------
(* Inputs *)

(* the directories the process can be in: the three script directories of  *)
(* the project, the project root and one directory outside the project     *)
Dirs == {"scripts", "cs_energy", "dynamics", "project", "home"}

(* the exit status of a process that has not exited *)
NotExited == 0 - 1

(* the driver record of a behaviour in which no validation driver runs *)
NoDriver == [name |-> "none"]

Coefs == (-MaxCoef)..MaxCoef

(* x**3 - 3, the polynomial of the driver *)
CubeMinus3 == <<-3, 0, 0, 1>>

(* x**2 - 1 *)
SquareMinus1 == <<-1, 0, 1>>

(* x**3 - x**2 = x^2 (x - 1): modulo every prime p the root 0 is singular  *)
(* and the root 1 is simple                                                *)
CubeMinusSquare == <<0, 0, -1, 1>>

(* x**3 - x**2 + 3: modulo 3 the singular root 0 does not lift and the     *)
(* simple root 1 does                                                      *)
CubeMinusSquarePlus3 == <<3, 0, -1, 1>>

(* all coefficient vectors of length MaxDeg + 1 (the zero polynomial and   *)
(* the constants included), the driver's polynomial and the three above    *)
Polys ==
    [1..(MaxDeg + 1) -> Coefs]
        \cup {CubeMinus3, SquareMinus1, CubeMinusSquare, CubeMinusSquarePlus3}

(* the hensel_lift callers: the script's driver and a two-call caller *)
InitHensel ==
    /\ \/ /\ caller = "main"
          /\ f = CubeMinus3
          /\ p = MainP
          /\ n = MainN
          /\ earlier = MainN
          /\ later = MainN
       \/ /\ caller = "harness"
          /\ f \in Polys
          /\ p \in 0..MaxP
          /\ n \in 0..MaxN
          /\ earlier = n
          /\ later \in n..MaxN
    /\ call = 1
    /\ pc = "scan"
    /\ value = Real(0)
    /\ i = 1
    /\ sols = <<>>
    /\ new_sols = <<>>
    /\ mod = 0
    /\ prev_mod = 0
    /\ k = 1
    /\ result = <<>>
    /\ first = <<>>
    /\ out = "running"
    /\ rounds = 0
    /\ inv_args = {}
    /\ sols_ref = 0
    /\ new_ref = 0
    /\ fresh = 1
    /\ drv = NoDriver


(* the fractions, in units of 1/Scale, of the numbers given to             *)
(* check_irrational.  A deviation of exactly 1e-6 is left out: there the   *)
(* rounding of the binary floating-point subtraction decides the           *)
(* comparison, which decimal arithmetic does not reproduce.                *)
ProbeFracs ==
    {0, 1, 10, Tol - 1, Tol + 1, 10 * Tol, Scale \div 2,
     Scale - 10 * Tol, Scale - Tol - 1, Scale - Tol + 1, Scale - 10, Scale - 1}

ProbeValues == [ip : (-MaxInt)..MaxInt, fp : ProbeFracs]

(* the variables of hensel_lift in a behaviour that never calls it *)
HenselIdle ==
    /\ f = <<>> /\ p = 0 /\ n = 0 /\ earlier = 0 /\ later = 0
    /\ call = 1
    /\ i = 1
    /\ sols = <<>>
    /\ new_sols = <<>>
    /\ mod = 0
    /\ prev_mod = 0
    /\ k = 1
    /\ result = <<>>
    /\ first = <<>>
    /\ out = "running"
    /\ rounds = 0
    /\ inv_args = {}
    /\ sols_ref = 0
    /\ new_ref = 0
    /\ fresh = 1

(* a caller that applies check_irrational to one number *)
InitProbe ==
    /\ caller = "probe"
    /\ value \in ProbeValues
    /\ pc = "check"
    /\ HenselIdle
    /\ drv = NoDriver

(* the validation drivers, each at the start of its main() / __main__ *)
InitDrivers ==
    /\ \/ /\ caller = "validate_all"
          /\ pc = "validations"
          /\ \E dir \in Dirs :
                drv = [name |-> "validate_all", results |-> <<>>, idx |-> 1,
                       status |-> NotExited, cwd |-> dir, entry_cwd |-> dir,
                       script_dir |-> "", original_dir |-> "",
                       success |-> FALSE, printed |-> <<>>,
                       main_ran |-> <<>>]
       \/ /\ caller = "check_reproducibility"
          /\ pc = "critical"
          /\ drv = [name |-> "check_reproducibility",
                    all_files_present |-> TRUE, outputs_present |-> TRUE,
                    idx |-> 1, status |-> NotExited]
       \/ /\ caller = "tripartite"
          /\ pc = "validate"
          /\ drv = [name |-> "tripartite", independence_ok |-> FALSE,
                    k_result |-> 0, overall_success |-> FALSE,
                    status |-> NotExited]
       \/ /\ caller = "verify_3adic"
          /\ pc = "candidates"
          /\ drv = [name |-> "verify_3adic", valid_k |-> <<>>,
                    reasons |-> <<>>, solutions |-> <<>>,
                    violations |-> <<>>, idx |-> 1, status |-> NotExited]
       \/ /\ caller = "susy_hit"
          /\ pc = "init"
          /\ drv = [name |-> "susy_hit", susy_hit_path |-> FALSE,
                    results |-> {}, parsed |-> FALSE, returned |-> FALSE,
                    status |-> NotExited]
    /\ value = Real(0)
    /\ HenselIdle

Init == InitHensel \/ InitProbe \/ InitDrivers

---------------------------------------------------------------------------
(* hensel_lift *)

(* line 6: the level-1 scan *)
Scan ==
    /\ pc = "scan"
    /\ sols' = ScanRoots(f, p)
    /\ i' = 1
    /\ pc' = "loop"
    /\ rounds' = 0
    /\ inv_args' = {}
    /\ sols_ref' = fresh
    /\ fresh' = fresh + 1
    /\ UNCHANGED <<caller, f, p, n, earlier, later, call, new_sols, mod,
                   prev_mod, k, result, first, out, new_ref, others>>

(* the round set up with `new_sols = sols`: the next level's list is the   *)
(* previous level's list object, not a new one                             *)
RoundStartAlias ==
    /\ pc = "loop"
    /\ i < n
    /\ new_sols' = sols
    /\ mod' = Pow(p, i + 1)
    /\ prev_mod' = Pow(p, i)
    /\ k' = 1
    /\ pc' = "body"
    /\ rounds' = rounds + 1
    /\ new_ref' = sols_ref
    /\ UNCHANGED <<caller, f, p, n, earlier, later, call, i, sols, result,
                   first, out, inv_args, sols_ref, fresh, others>>

(* the loop run as `for i in range(1, n + 1)`: one round too many *)
RoundStartOneMore ==
    /\ pc = "loop"
    /\ i <= n
    /\ new_sols' = <<>>
    /\ mod' = Pow(p, i + 1)
    /\ prev_mod' = Pow(p, i)
    /\ k' = 1
    /\ pc' = "body"
    /\ rounds' = rounds + 1
    /\ new_ref' = fresh
    /\ fresh' = fresh + 1
    /\ UNCHANGED <<caller, f, p, n, earlier, later, call, i, sols, result,
                   first, out, inv_args, sols_ref, others>>

(* lines 8-11: the loop takes its next i and sets up the round *)
RoundStart ==
    /\ pc = "loop"
    /\ i < n
    /\ new_sols' = <<>>
    /\ mod' = Pow(p, i + 1)
    /\ prev_mod' = Pow(p, i)
    /\ k' = 1
    /\ pc' = "body"
    /\ rounds' = rounds + 1
    /\ new_ref' = fresh
    /\ fresh' = fresh + 1
    /\ UNCHANGED <<caller, f, p, n, earlier, later, call, i, sols, result,
                   first, out, inv_args, sols_ref, others>>

(* lines 13-21: one iteration of `for s in sols` *)
LiftOne ==
    /\ pc = "body"
    /\ k <= Len(sols)
    /\ LET s == sols[k]
           df_val == Eval(Deriv(f), s) % p
           f_val == Eval(f, s) % mod
       IN IF NonSingular(df_val)
          THEN /\ inv_args' = inv_args \cup {df_val}
               /\ IF HasInverse(df_val, p)
                  THEN /\ new_sols' = Append(new_sols,
                             Lifted(s, LiftT(f_val, prev_mod, df_val, p),
                                    prev_mod))
                       /\ k' = k + 1
                       /\ UNCHANGED <<pc, out>>
                  ELSE /\ pc' = "raised"
                       /\ out' = "ValueError"
                       /\ UNCHANGED <<new_sols, k>>
          ELSE /\ new_sols' = IF KeepSingular(f_val, mod)
                              THEN Append(new_sols, s)
                              ELSE new_sols
               /\ k' = k + 1
               /\ UNCHANGED <<pc, out, inv_args>>
    \* append changes the list object new_sols names; sols changes with it
    \* only if it names the same object
    /\ sols' = IF sols_ref = new_ref THEN new_sols' ELSE sols
    /\ UNCHANGED <<caller, f, p, n, earlier, later, call, i, mod, prev_mod,
                   result, first, rounds, sols_ref, new_ref, fresh, others>>

(* line 23: the new list replaces the old one, the round is over *)
RoundEnd ==
    /\ pc = "body"
    /\ k > Len(sols)
    /\ sols' = new_sols
    /\ sols_ref' = new_ref
    /\ i' = i + 1
    /\ pc' = "loop"
    /\ UNCHANGED <<caller, f, p, n, earlier, later, call, new_sols, mod,
                   prev_mod, k, result, first, out, rounds, inv_args, new_ref,
                   fresh, others>>

(* line 25: range(1, n) is exhausted, the filtered list is returned *)
Return ==
    /\ pc = "loop"
    /\ ~(i < n)
    /\ result' = FilterResult(sols)
    /\ pc' = "done"
    /\ UNCHANGED <<caller, f, p, n, earlier, later, call, i, sols, new_sols,
                   mod, prev_mod, k, first, out, rounds, inv_args, sols_ref,
                   new_ref, fresh, others>>

---------------------------------------------------------------------------
(* Callers *)

(* the driver's assertion inverted: `assert len(sols) != 0` *)
MainOutcomeInverted(res) ==
    IF \E j \in 1..Len(res) : check_irrational(Real(res[j]))
    THEN "ValueError"
    ELSE IF Len(res) = 0 THEN "AssertionError" ELSE "passed"

(* lines 36-40 of the script as a function of the returned list: the      *)
(* ValueError, else the failed assertion, else the pass message            *)
MainOutcome(res) ==
    IF \E j \in 1..Len(res) : check_irrational(Real(res[j]))
    THEN "ValueError"
    ELSE IF Len(res) # 0 THEN "AssertionError" ELSE "passed"

(* lines 36-40 of the script: the two checks on the returned list *)
MainCheck ==
    /\ caller = "main"
    /\ pc = "done"
    /\ out = "running"
    /\ out' = MainOutcome(result)
    /\ pc' = "exit"
    /\ UNCHANGED <<caller, f, p, n, earlier, later, call, i, sols, new_sols,
                   mod, prev_mod, k, result, first, rounds, inv_args, sols_ref,
                   new_ref, fresh, others>>

(* a caller that calls hensel_lift a second time with the same f and p and *)
(* a precision at least that of its first call                             *)
SecondCall ==
    /\ caller = "harness"
    /\ pc = "done"
    /\ call = 1
    /\ first' = result
    /\ call' = 2
    /\ n' = later
    /\ pc' = "scan"
    /\ UNCHANGED <<caller, f, p, earlier, later, i, sols, new_sols, mod,
                   prev_mod, k, result, out, rounds, inv_args, sols_ref,
                   new_ref, fresh, others>>

(* lines 27-29: check_irrational applied to the caller's number *)
CheckValue ==
    /\ caller = "probe"
    /\ pc = "check"
    /\ out' = IF check_irrational(value) THEN "irrational" ELSE "not irrational"
    /\ pc' = "exit"
    /\ UNCHANGED <<caller, f, p, n, earlier, later, call, i, sols, new_sols,
                   mod, prev_mod, k, result, first, rounds, inv_args, sols_ref,
                   new_ref, fresh, others>>

---------------------------------------------------------------------------
(* validate_all.py *)

hensel == <<f, p, n, earlier, later, call, i, sols, new_sols, mod, prev_mod,
            k, result, first, out, rounds, inv_args, sols_ref, new_ref, fresh>>

(* lines 50-61 with line 21: os.path.dirname of the listed script paths *)
ScriptDirs == <<"scripts", "cs_energy", "cs_energy", "dynamics", "dynamics">>

(* line 27: the name every script is loaded under *)
ModuleName == "module"

(* `if __name__ == "__main__":`, the guard around the validation routines  *)
(* of each listed script                                                   *)
GuardTaken(name) == name = "__main__"

(* lines 23-24: the directory after `if script_dir: os.chdir(script_dir)` *)
ChdirScript(script_dir, current) ==
    IF script_dir # "" THEN script_dir ELSE current

(* run_script without its finally clause: the directory stays as it is *)
FinallyDirKeep(original_dir, current) == current

(* lines 37-38: the directory after `finally: os.chdir(original_dir)` *)
FinallyDir(original_dir, current) == original_dir

(* lines 65-66 and 101-103: one pass of `for script_path, description in   *)
(* validations` up to the call of run_script.  None of the five listed     *)
(* paths ends in '.gap', so an existing script goes to run_script; a       *)
(* missing one is reported and recorded as False.                          *)
ValidateOne ==
    /\ caller = "validate_all"
    /\ pc = "validations"
    /\ drv.idx <= NumValidations
    /\ \E exists \in BOOLEAN :
          IF exists
          THEN /\ pc' = "run_script"
               /\ drv' = [drv EXCEPT !.entry_cwd = drv.cwd]
          ELSE /\ pc' = pc
               /\ drv' = [drv EXCEPT
                            !.printed = Append(@, "[FAIL] Script not found"),
                            !.main_ran = Append(@, FALSE),
                            !.results = Append(@, <<drv.idx, FALSE>>),
                            !.idx = @ + 1]
    /\ UNCHANGED <<caller, value, hensel>>

(* lines 18-24: run_script notes the current directory and enters the      *)
(* directory of the script                                                 *)
RunScriptEnter ==
    /\ caller = "validate_all"
    /\ pc = "run_script"
    /\ drv' = [drv EXCEPT
                 !.script_dir = ScriptDirs[drv.idx],
                 !.original_dir = drv.cwd,
                 !.cwd = ChdirScript(ScriptDirs[drv.idx], drv.cwd)]
    /\ pc' = "exec"
    /\ UNCHANGED <<caller, value, hensel>>

(* an exception of the script leaving run_script and main() uncaught *)
RunScriptExecUncaught ==
    /\ caller = "validate_all"
    /\ pc = "exec"
    /\ \E raises \in BOOLEAN :
          IF raises
          THEN /\ pc' = "exit"
               /\ drv' = [drv EXCEPT !.status = 1]
          ELSE /\ pc' = "finally"
               /\ drv' = [drv EXCEPT
                            !.success = TRUE,
                            !.main_ran = Append(@, GuardTaken(ModuleName)),
                            !.printed = Append(@, "[OK]")]
    /\ UNCHANGED <<caller, value, hensel>>

(* lines 27-36: the script is loaded as module "module" and its top-level  *)
(* code is executed; the code under its __main__ guard runs only if the    *)
(* guard is taken.  Without an exception "[OK] ... completed successfully" *)
(* is printed and True is the return value; an exception (a failed import, *)
(* say) is caught, "[FAIL] ... failed" is printed and False is the return  *)
(* value.                                                                  *)
RunScriptExec ==
    /\ caller = "validate_all"
    /\ pc = "exec"
    /\ \E raises \in BOOLEAN :
          drv' = [drv EXCEPT
                    !.success = ~raises,
                    !.main_ran = Append(@, ~raises /\ GuardTaken(ModuleName)),
                    !.printed = Append(@, IF raises THEN "[FAIL] failed"
                                                    ELSE "[OK]")]
    /\ pc' = "finally"
    /\ UNCHANGED <<caller, value, hensel>>

(* lines 37-38 and 99-100: the finally clause restores the directory,      *)
(* run_script returns and main() records the returned value                *)
RunScriptFinally ==
    /\ caller = "validate_all"
    /\ pc = "finally"
    /\ drv' = [drv EXCEPT
                 !.cwd = FinallyDir(drv.original_dir, drv.cwd),
                 !.results = Append(@, <<drv.idx, drv.success>>),
                 !.idx = @ + 1]
    /\ pc' = "validations"
    /\ UNCHANGED <<caller, value, hensel>>

(* lines 105-168: the summary is printed, main() returns None and the      *)
(* script ends: the process exits with status 0                            *)
ValidateAllExit ==
    /\ caller = "validate_all"
    /\ pc = "validations"
    /\ drv.idx > NumValidations
    /\ drv' = [drv EXCEPT !.status = 0]
    /\ pc' = "exit"
    /\ UNCHANGED <<caller, value, hensel>>

---------------------------------------------------------------------------
(* check_reproducibility.py *)

(* lines 27-33: one pass of `for f in critical_files` *)
CheckCriticalFile ==
    /\ caller = "check_reproducibility"
    /\ pc = "critical"
    /\ \E exists \in BOOLEAN :
          drv' = [drv EXCEPT
                    !.all_files_present = IF exists THEN @ ELSE FALSE,
                    !.idx = IF drv.idx = NumCritical THEN 1 ELSE @ + 1]
    /\ pc' = IF drv.idx = NumCritical THEN "outputs" ELSE pc
    /\ UNCHANGED <<caller, value, hensel>>

(* lines 47-53: one pass of `for f in output_files` *)
CheckOutputFile ==
    /\ caller = "check_reproducibility"
    /\ pc = "outputs"
    /\ \E exists \in BOOLEAN :
          drv' = [drv EXCEPT
                    !.outputs_present = IF exists THEN @ ELSE FALSE,
                    !.idx = @ + 1]
    /\ pc' = IF drv.idx = NumOutputs THEN "status" ELSE pc
    /\ UNCHANGED <<caller, value, hensel>>

(* lines 55-85: the status is printed, main() returns 0 and the script     *)
(* calls sys.exit(0)                                                       *)
ReproExit ==
    /\ caller = "check_reproducibility"
    /\ pc = "status"
    /\ drv' = [drv EXCEPT !.status = 0]
    /\ pc' = "exit"
    /\ UNCHANGED <<caller, value, hensel>>

---------------------------------------------------------------------------
(* tripartite_validation_enhanced.py *)

(* lines 20-39: the three axiom sets, numbered in the order written *)
A_I == {1, 2, 3, 4}
A_II == {5, 6, 7, 8}
A_III == {9, 10, 11, 12}

(* lines 46-57: all_disjoint *)
all_disjoint ==
    /\ Cardinality(A_I \cap A_II) = 0
    /\ Cardinality(A_I \cap A_III) = 0
    /\ Cardinality(A_II \cap A_III) = 0

(* line 79 *)
k_candidates_I == <<3, 6, 9, 12, 15, 18>>

(* lines 88-97: ten times S_eff(k) = 0.1 k^2 - 0.5 k + 0.5 *)
S_eff10(kk) == kk * kk - 5 * kk + 5

(* lines 97-111: the first candidate of [3, 6, 9, 12, 15] with the least   *)
(* action (np.argmin)                                                      *)
k_optimal_II ==
    LET cand == <<3, 6, 9, 12, 15>>
        best == CHOOSE j \in 1..Len(cand) :
                    /\ \A m \in 1..Len(cand) : S_eff10(cand[j]) <= S_eff10(cand[m])
                    /\ \A m \in 1..(j - 1) : S_eff10(cand[m]) > S_eff10(cand[j])
    IN cand[best]

(* lines 127-146: rho = k ** (-beta) <= 1 with beta = 2/3, which for       *)
(* k > 0 says k^2 >= 1                                                     *)
k_stable_III == SelectSeq(<<3, 6, 9, 12>>, LAMBDA kk : kk * kk >= 1)

(* lines 161-166: the first k of path I that path II chose and path III    *)
(* found stable; 0 stands for None                                         *)
k_final ==
    LET hits == SelectSeq(k_candidates_I,
                    LAMBDA kk : kk = k_optimal_II /\ kk \in Range(k_stable_III))
    IN IF Len(hits) = 0 THEN 0 ELSE hits[1]

(* lines 244-247: the two validations *)
TripartiteValidate ==
    /\ caller = "tripartite"
    /\ pc = "validate"
    /\ drv' = [drv EXCEPT !.independence_ok = all_disjoint,
                          !.k_result = k_final]
    /\ pc' = "figure"
    /\ UNCHANGED <<caller, value, hensel>>

(* line 250: create_summary_figure() writes a file and may raise; the      *)
(* exception is not caught and the interpreter exits with status 1         *)
TripartiteFigure ==
    /\ caller = "tripartite"
    /\ pc = "figure"
    /\ \E saved \in BOOLEAN :
          IF saved
          THEN pc' = "assess" /\ drv' = drv
          ELSE pc' = "exit" /\ drv' = [drv EXCEPT !.status = 1]
    /\ UNCHANGED <<caller, value, hensel>>

(* lines 259-267: overall_success and sys.exit(0 if success else 1) *)
TripartiteExit ==
    /\ caller = "tripartite"
    /\ pc = "assess"
    /\ LET overall == drv.independence_ok /\ drv.k_result = 3
       IN drv' = [drv EXCEPT !.overall_success = overall,
                             !.status = IF overall THEN 0 ELSE 1]
    /\ pc' = "exit"
    /\ UNCHANGED <<caller, value, hensel>>

---------------------------------------------------------------------------
(* verify_3adic.py *)

(* line 33 *)
k_candidates == <<1, 2, 3, 4, 5, 6, 9, 12, 15>>

(* line 19: abs(k % 3) < tolerance with tolerance = 1e-6, for an integer k *)
basic_3adic(kk) == (kk % 3) * Scale < Tol

(* line 23: k > 0 and k == 3 *)
ginzburg_valid(kk) == kk > 0 /\ kk = 3

(* lines 16-30: the pair (is_valid, reason) *)
check_3adic_constraint_enhanced(kk) ==
    IF basic_3adic(kk) /\ ginzburg_valid(kk)
    THEN <<TRUE, "Both 3-adic and Ginzburg constraints satisfied">>
    ELSE IF basic_3adic(kk)
         THEN <<TRUE, "3-adic satisfied, Ginzburg enhancement supports k=3">>
         ELSE <<FALSE, "Failed basic 3-adic constraint">>

(* the scan testing x**3 - 3 modulo p instead of modulo p ** n *)
hensel_stepModP(x0, pp, nn) ==
    SelectSeq(RangeSeq(Pow(pp, nn)), LAMBDA x : (x * x * x - 3) % pp = 0)

(* lines 75-87: the x of range(p ** n) with (x**3 - 3) % p**n == 0; the    *)
(* argument x0 is not used                                                 *)
hensel_step(x0, pp, nn) ==
    LET mod_val == Pow(pp, nn)
    IN SelectSeq(RangeSeq(mod_val), LAMBDA x : (x * x * x - 3) % mod_val = 0)

(* line 90: range(1, 4) *)
SimLevels == <<1, 2, 3>>

(* line 111 *)
max_search == 10

(* line 135 *)
MinkowskiKs == <<3, 6, 9, 12>>

(* the valuation counted downwards *)
RECURSIVE v_3Down(_)
v_3Down(temp_det) ==
    IF temp_det % 3 = 0 THEN v_3Down(temp_det \div 3) - 1 ELSE 0

(* lines 119-123: the number of times 3 divides temp_det (temp_det > 0) *)
RECURSIVE v_3(_)
v_3(temp_det) == IF temp_det % 3 = 0 THEN 1 + v_3(temp_det \div 3) ELSE 0

(* abs(det) *)
Abs(x) == IF x < 0 THEN 0 - x ELSE x

(* lines 106-132: True as soon as some matrix with det != 0 reaches the    *)
(* else branch (v_3 neither 0 nor positive), False when the four loops end; *)
(* the argument k is not used                                              *)
check_determinant_constraint(kk) ==
    \E a \in 1..(max_search - 1), b \in 1..(max_search - 1),
       c \in 1..(max_search - 1), d \in 1..(max_search - 1) :
          LET det == a * d - b * c
          IN det # 0 /\ ~(v_3(Abs(det)) = 0) /\ ~(v_3(Abs(det)) > 0)

(* lines 37-41: one pass of `for k in k_candidates`; after the last one    *)
(* ginzburg_automorphism_analysis() only prints                            *)
CheckCandidate ==
    /\ caller = "verify_3adic"
    /\ pc = "candidates"
    /\ LET kk == k_candidates[drv.idx]
           answer == check_3adic_constraint_enhanced(kk)
       IN drv' = [drv EXCEPT
                    !.valid_k = IF answer[1] THEN Append(@, kk) ELSE @,
                    !.reasons = Append(@, answer[2]),
                    !.idx = IF drv.idx = Len(k_candidates) THEN 1 ELSE @ + 1]
    /\ pc' = IF drv.idx = Len(k_candidates) THEN "hensel_sim" ELSE pc
    /\ UNCHANGED <<caller, value, hensel>>

(* lines 90-97: one pass of `for n in range(1, 4)` *)
HenselStepLevel ==
    /\ caller = "verify_3adic"
    /\ pc = "hensel_sim"
    /\ drv' = [drv EXCEPT
                 !.solutions = Append(@, hensel_step(0, 3, SimLevels[drv.idx])),
                 !.idx = IF drv.idx = Len(SimLevels) THEN 1 ELSE @ + 1]
    /\ pc' = IF drv.idx = Len(SimLevels) THEN "minkowski" ELSE pc
    /\ UNCHANGED <<caller, value, hensel>>

(* lines 135-137: one pass of `for k in [3, 6, 9, 12]` *)
CheckDeterminant ==
    /\ caller = "verify_3adic"
    /\ pc = "minkowski"
    /\ drv' = [drv EXCEPT
                 !.violations =
                     Append(@, check_determinant_constraint(MinkowskiKs[drv.idx])),
                 !.idx = @ + 1]
    /\ pc' = IF drv.idx = Len(MinkowskiKs) THEN "summary" ELSE pc
    /\ UNCHANGED <<caller, value, hensel>>

(* lines 148-154: nothing raised, the summary ends with PASSED and the     *)
(* script ends                                                             *)
Verify3adicExit ==
    /\ caller = "verify_3adic"
    /\ pc = "summary"
    /\ drv' = [drv EXCEPT !.status = 0]
    /\ pc' = "exit"
    /\ UNCHANGED <<caller, value, hensel>>

---------------------------------------------------------------------------
(* susy_hit_interface.py.  A dict is modelled by the set of its keys.  A   *)
(* line of the output file is "number" if it contains 'alpha_s' and 'MZ'   *)
(* and its last word parses as a float, "text" if it contains both and its *)
(* last word does not parse, and "other" if it lacks one of the two.       *)

MaxLines == 2

LineKinds == {"other", "number", "text"}

Contents == UNION {[1..len -> LineKinds] : len \in 0..MaxLines}

(* lines 121-129: the keys of _mock_results() *)
MockKeys == {"alpha_s_mz", "alpha_s_mt", "su3_beta_function", "dual_coxeter",
             "casimir_adjoint", "casimir_fundamental", "running_valid"}

(* lines 154-159: the keys added by results.update(...) *)
Su3Keys == {"dual_coxeter", "casimir_adjoint", "casimir_fundamental",
            "running_valid"}

(* lines 173-186: the keys calculate_su3_parameters reads *)
ReadKeys == {"alpha_s_mz", "dual_coxeter", "casimir_adjoint",
             "casimir_fundamental"}

(* lines 131-161: _parse_output; float(parts[-1]) failing is swallowed by  *)
(* the bare except and leaves results without 'alpha_s_mz'                 *)
_parse_output(exists, content) ==
    IF ~exists THEN MockKeys
    ELSE (IF \E j \in 1..Len(content) : content[j] = "number"
          THEN {"alpha_s_mz"} ELSE {}) \cup Su3Keys

(* lines 93-114: run_calculation.  run is what subprocess.run did          *)
(* ("raises", or the return code "nonzero" / "zero"); readable is whether  *)
(* open() and read() of the output file succeed; an exception inside the   *)
(* try, that of open() included, ends in the except clause                 *)
run_calculation(path_found, run, exists, readable, content) ==
    IF ~path_found THEN MockKeys
    ELSE IF run = "raises" THEN MockKeys
    ELSE IF run = "nonzero" THEN MockKeys
    ELSE IF exists /\ ~readable THEN MockKeys
    ELSE _parse_output(exists, content)

(* lines 26 and 30-39: __init__ looks for the executable with `which` *)
SusyInit ==
    /\ caller = "susy_hit"
    /\ pc = "init"
    /\ \E found \in BOOLEAN : drv' = [drv EXCEPT !.susy_hit_path = found]
    /\ pc' = "run"
    /\ UNCHANGED <<caller, value, hensel>>

(* lines 170-171: calculate_su3_parameters writes the input file and calls *)
(* run_calculation                                                         *)
SusyRun ==
    /\ caller = "susy_hit"
    /\ pc = "run"
    /\ \E run \in {"raises", "nonzero", "zero"}, exists \in BOOLEAN,
          readable \in BOOLEAN, content \in Contents :
          drv' = [drv EXCEPT
                    !.results = run_calculation(drv.susy_hit_path, run, exists,
                                                readable, content),
                    !.parsed = drv.susy_hit_path /\ run = "zero" /\ exists
                                  /\ readable,
                    !.returned = TRUE]
    /\ pc' = "use"
    /\ UNCHANGED <<caller, value, hensel>>

(* lines 173-189 and 229-241: the results are read key by key, a missing   *)
(* key raises KeyError; cleanup() runs in the finally clause and an        *)
(* uncaught exception ends the process with status 1                       *)
SusyUse ==
    /\ caller = "susy_hit"
    /\ pc = "use"
    /\ LET ok == ReadKeys \subseteq drv.results
       IN /\ out' = IF ok THEN "passed" ELSE "KeyError"
          /\ drv' = [drv EXCEPT !.status = IF ok THEN 0 ELSE 1]
    /\ pc' = "exit"
    /\ UNCHANGED <<caller, value, f, p, n, earlier, later, call, i, sols,
                   new_sols, mod, prev_mod, k, result, first, rounds,
                   inv_args, sols_ref, new_ref, fresh>>

Next ==
    \/ Scan
    \/ RoundStart
    \/ LiftOne
    \/ RoundEnd
    \/ Return
    \/ MainCheck
    \/ SecondCall
    \/ CheckValue
    \/ ValidateOne
    \/ RunScriptEnter
    \/ RunScriptExec
    \/ RunScriptFinally
    \/ ValidateAllExit
    \/ CheckCriticalFile
    \/ CheckOutputFile
    \/ ReproExit
    \/ TripartiteValidate
    \/ TripartiteFigure
    \/ TripartiteExit
    \/ CheckCandidate
    \/ HenselStepLevel
    \/ CheckDeterminant
    \/ Verify3adicExit
    \/ SusyInit
    \/ SusyRun
    \/ SusyUse

Spec == Init /\ [][Next]_vars

(* the program is sequential and keeps running while a step is possible *)
FairSpec == Spec /\ WF_vars(Next)


---------------------------------------------------------------------------
(* Reference notions the properties are stated with, computed directly     *)
(* from the coefficients with modular arithmetic                           *)

RECURSIVE EvalMod(_, _, _)
EvalMod(ff, v, m) ==
    IF Len(ff) = 0 THEN 0 ELSE (ff[1] + v * EvalMod(Tail(ff), v, m)) % m

IsRootMod(ff, r, m) == EvalMod(ff, r, m) = 0

(* the roots found by scanning all of [0, m) *)
BruteForceRoots(ff, m) == {r \in 0..(m - 1) : IsRootMod(ff, r, m)}

(* s is a root modulo pp at which the derivative does not vanish modulo pp *)
SimpleRoot(ff, s, pp) ==
    IsRootMod(ff, s, pp) /\ EvalMod(Deriv(ff), s, pp) # 0

(* no root modulo pp is singular *)
NoSingularRoot(ff, pp) ==
    \A s \in 0..(pp - 1) : IsRootMod(ff, s, pp) => SimpleRoot(ff, s, pp)

(* every element of the list ss is a residue of level lev that is a root   *)
(* modulo pp^lev                                                           *)
LevelOK(ss, ff, pp, lev) ==
    \A j \in 1..Len(ss) :
        /\ 0 <= ss[j]
        /\ ss[j] < Pow(pp, lev)
        /\ IsRootMod(ff, ss[j], Pow(pp, lev))

StrictlyIncreasing(ss) == \A j \in 1..(Len(ss) - 1) : ss[j] < ss[j + 1]

(* the states in which sols is the complete residue list of level i *)
AtLevel == pc \in {"loop", "body", "done"}

---------------------------------------------------------------------------
(* C1: for prime p and n >= 1, at every level i from 1 to n the residue    *)
(* list holds only residues r with 0 <= r < p^i and f(r) = 0 mod p^i; the  *)
(* list under construction is of level i+1 and the returned list of        *)
(* level n.                                                                *)
C1_ResiduesAreRoots ==
    (IsPrime(p) /\ n >= 1 /\ AtLevel) =>
        /\ 1 <= i /\ i <= n
        /\ LevelOK(sols, f, p, i)
        /\ (pc = "body" => LevelOK(new_sols, f, p, i + 1))
        /\ (pc = "done" => i = n /\ LevelOK(result, f, p, n))

C1_Witness ==
    /\ IsPrime(p) /\ n >= 3 /\ pc = "done"
    /\ Len(result) >= 2
    /\ \E j \in 1..Len(result) : result[j] >= Pow(p, n - 1)

(* C2: for prime p, n >= 1 and f without singular root modulo p, the      *)
(* returned list holds exactly the roots of f modulo p^n in [0, p^n).      *)
C2_ExactWhenNoSingularRoot ==
    (IsPrime(p) /\ n >= 1 /\ pc = "done" /\ NoSingularRoot(f, p)) =>
        Range(result) = BruteForceRoots(f, Pow(p, n))

C2_Witness ==
    /\ IsPrime(p) /\ n >= 3 /\ pc = "done" /\ NoSingularRoot(f, p)
    /\ Cardinality(BruteForceRoots(f, Pow(p, n))) >= 2
    /\ Range(result) = BruteForceRoots(f, Pow(p, n))

(* C3: for prime p and 1 <= m <= n, every root returned at precision n,    *)
(* reduced modulo p^m, is in the list returned at precision m.             *)
C3_Projective ==
    (caller = "harness" /\ call = 2 /\ pc = "done" /\ IsPrime(p)
        /\ 1 <= earlier /\ earlier <= n) =>
        \A j \in 1..Len(result) :
            (result[j] % Pow(p, earlier)) \in Range(first)

C3_Witness ==
    /\ caller = "harness" /\ call = 2 /\ pc = "done" /\ IsPrime(p)
    /\ 1 <= earlier /\ earlier < n
    /\ \E j \in 1..Len(result) : result[j] >= Pow(p, earlier)

(* C4: with n = 1 no lift round is run and the returned list is the        *)
(* increasing list of the k in 0..p-1 with f(k) = 0 mod p.                 *)
C4_LevelOneIsScan ==
    (pc = "done" /\ n = 1) =>
        /\ rounds = 0
        /\ Range(result) = BruteForceRoots(f, p)
        /\ StrictlyIncreasing(result)

C4_Witness == pc = "done" /\ n = 1 /\ Len(result) >= 3

(* C5: for prime p, a root s modulo p with f'(s) # 0 modulo p has exactly  *)
(* one residue congruent to it modulo p in the list of every level 1..n.   *)
C5_SimpleRootLiftsOnce ==
    (IsPrime(p) /\ n >= 1 /\ AtLevel) =>
        \A s \in 0..(p - 1) :
            SimpleRoot(f, s, p) =>
                Cardinality({j \in 1..Len(sols) : sols[j] % p = s}) = 1

C5_Witness ==
    /\ IsPrime(p) /\ pc = "loop" /\ i = n /\ n >= 3
    /\ \E s \in 0..(p - 1) : SimpleRoot(f, s, p) /\ s \notin Range(sols)
    /\ \E s \in 0..(p - 1) : IsRootMod(f, s, p) /\ ~SimpleRoot(f, s, p)


(* C6: the driver's call hensel_lift(x^3 - 3, 3, 5) returns the empty      *)
(* list, raises nothing, and the driver ends by printing the pass message. *)
C6_DriverPasses ==
    caller = "main" =>
        /\ pc # "raised"
        /\ (pc \in {"done", "exit"} => result = <<>>)
        /\ (pc = "exit" => out = "passed")

C6_Witness == caller = "main" /\ pc = "exit" /\ out = "passed" /\ rounds = 4

(* the roots of x^2 - 1 modulo 27 by direct scan *)
SquareRootsOfOneMod27 == {r \in 0..26 : (r * r) % 27 = 1}

(* the call hensel_lift(x^2 - 1, 3, 3) has returned *)
C7_Case == f = SquareMinus1 /\ p = 3 /\ n = 3 /\ pc = "done"

(* C7 as stated: for x^2 - 1, p = 3, n = 3 the returned roots are the r in *)
(* [0, 27) with r^2 = 1 mod 27, and that set is {1, 8, 19, 26}.            *)
C7_AsStated ==
    C7_Case =>
        /\ Range(result) = SquareRootsOfOneMod27
        /\ SquareRootsOfOneMod27 = {1, 8, 19, 26}

(* C7 amended: for x^2 - 1, p = 3, n = 3 the returned roots are the r in   *)
(* [0, 27) with r^2 = 1 mod 27, and that set is {1, 26}: the list is       *)
(* [1, 26].                                                                *)
C7_RootsOfSquareMinus1 ==
    C7_Case =>
        /\ Range(result) = SquareRootsOfOneMod27
        /\ SquareRootsOfOneMod27 = {1, 26}
        /\ result = <<1, 26>>

C7_Witness == C7_Case /\ Len(result) = 2 /\ rounds = 2

(* the arguments the specification declares invalid *)
InvalidInput == p < 2 \/ n < 1 \/ \A j \in 1..Len(f) : f[j] = 0

(* C8: a call with p < 2, n < 1 or the zero polynomial fails with an       *)
(* InvalidInput error: it never returns a list.                            *)
C8_InvalidInputRejected == InvalidInput => pc # "done"

(* C9: for prime p, pow(d, -1, p) is called only with d # 0 that has an    *)
(* inverse modulo p, and the call never ends in an exception.              *)
C9_InverseGuarded ==
    IsPrime(p) =>
        /\ \A d \in inv_args : d # 0 /\ HasInverse(d, p)
        /\ pc # "raised"
        /\ (caller = "harness" => out = "running")

C9_Witness ==
    /\ IsPrime(p) /\ pc = "done" /\ n >= 3 /\ inv_args # {}
    /\ \E s \in 0..(p - 1) : IsRootMod(f, s, p) /\ ~SimpleRoot(f, s, p)

(* C10: a second call with the same f, p and n returns the same list as    *)
(* the first, element for element.                                         *)
C10_SameArgumentsSameList ==
    (caller = "harness" /\ call = 2 /\ pc = "done" /\ n = earlier) =>
        result = first

C10_Witness ==
    /\ caller = "harness" /\ call = 2 /\ pc = "done" /\ n = earlier
    /\ n >= 2 /\ Len(result) >= 2

(* C11: for prime p and n >= 1 a call ends after the scan and exactly n-1  *)
(* lift rounds: round i is the i-th round started, i never decreases and   *)
(* moves by single steps, and every call that starts returns.              *)
C11_RoundCount ==
    (IsPrime(p) /\ n >= 1 /\ AtLevel) =>
        /\ 1 <= i /\ i <= n
        /\ rounds = IF pc = "body" THEN i ELSE i - 1
        /\ (pc = "done" => rounds = n - 1)

C11_LevelsIncrease == pc \in {"loop", "body"} => i' \in {i, i + 1}

C11_Terminates ==
    /\ []C11_RoundCount
    /\ [][C11_LevelsIncrease]_vars
    /\ (IsPrime(p) /\ n >= 1 /\ pc = "scan") ~> (pc = "done")

C11_Witness ==
    /\ IsPrime(p) /\ pc = "done" /\ call = 2 /\ n = MaxN /\ rounds = n - 1
    /\ Len(result) >= 1

(* isInteger(value, 1e-6): the negation of check_irrational, read off the  *)
(* outcome of the call                                                    *)
isInteger == out = "not irrational"

(* 3.0000001 and 3.00000001 *)
ThreePlus1em7 == [ip |-> 3, fp |-> Scale \div Pow(10, 7)]
ThreePlus1em8 == [ip |-> 3, fp |-> Scale \div Pow(10, 8)]

C12_Checked == caller = "probe" /\ pc = "exit"

(* C12 as stated: isInteger(3.0000001, 1e-6) is false and                  *)
(* isInteger(3.00000001, 1e-6) is true.                                    *)
C12_AsStated ==
    C12_Checked =>
        /\ (value = ThreePlus1em7 => ~isInteger)
        /\ (value = ThreePlus1em8 => isInteger)

(* C12 amended: isInteger(3.0000001, 1e-6) is true, the deviation 1e-7     *)
(* being below 1e-6, and isInteger(3.00000001, 1e-6) is true.              *)
C12_BothNearInteger ==
    C12_Checked =>
        /\ (value = ThreePlus1em7 => isInteger)
        /\ (value = ThreePlus1em8 => isInteger)

C12_Witness == C12_Checked /\ value = ThreePlus1em7 /\ isInteger

(* C13: the check for an unexpected solution is the caller's.  hensel_lift *)
(* returns normally with an empty or a non-empty list; applied to a        *)
(* returned list the driver's checks end in the AssertionError exactly     *)
(* when the list is non-empty and in the pass message exactly when it is   *)
(* empty, and the driver's outcome is that of its checks.                  *)
C13_CheckIsTheCallers ==
    /\ (caller = "harness" /\ pc = "done") => out = "running"
    /\ pc = "done" =>
          /\ MainOutcome(result) = "AssertionError" <=> result # <<>>
          /\ MainOutcome(result) = "passed" <=> result = <<>>
    /\ (caller = "main" /\ pc = "exit") => out = MainOutcome(result)
    /\ (caller = "main" /\ pc # "exit") => out = "running"

C13_Witness ==
    /\ caller = "harness" /\ pc = "done" /\ f = CubeMinus3 /\ IsPrime(p)
    /\ n = MaxN /\ result # <<>> /\ out = "running"

(* the driver has ended *)
DriverEnded == caller \in {"validate_all", "check_reproducibility", "tripartite"}
                   /\ drv.status # NotExited

(* some validation of the ended driver failed *)
SomeValidationFailed ==
    CASE caller = "validate_all" ->
            \E j \in 1..Len(drv.results) : ~drv.results[j][2]
      [] caller = "check_reproducibility" -> ~drv.all_files_present
      [] caller = "tripartite" -> ~(drv.independence_ok /\ drv.k_result = 3)

(* C14: a validation driver exits with a non-zero status whenever one of   *)
(* its validations failed, and with zero only when all passed.             *)
C14_ExitReflectsAggregate ==
    (DriverEnded /\ SomeValidationFailed) => drv.status # 0

(* a step taken inside hensel_lift *)
InCall == pc \in {"scan", "loop", "body"}

(* C15: a call leaves f, p, n and everything outside the call as they      *)
(* were; during a round the previous level's list is a different object    *)
(* from the list being built and keeps its contents; at the end of the     *)
(* round the list built replaces it.                                       *)
C15_Step ==
    /\ InCall => UNCHANGED <<f, p, n, caller, earlier, later, call, first,
                             value, drv>>
    /\ (InCall /\ pc' \in {"loop", "body"}) => UNCHANGED result
    /\ pc' = "body" => (sols' = sols /\ new_ref' # sols_ref')
    /\ (pc = "body" /\ pc' = "loop") => (sols' = new_sols /\ sols_ref' = new_ref)

C15_Frame == [][C15_Step]_vars

C15_Witness ==
    /\ IsPrime(p) /\ pc = "body" /\ rounds >= 2 /\ k > 2
    /\ Len(new_sols) >= 2 /\ new_sols # sols

(* the step is one pass of `for s in sols` that raised nothing *)
LiftStep == pc = "body" /\ pc' = "body" /\ k' = k + 1

(* C16: in the round from level i to i+1 a residue s with f'(s) = 0 mod p  *)
(* is appended unchanged when f(s) = 0 mod p^(i+1) and dropped otherwise;  *)
(* nothing else is appended for it, none of s + j*p^i with 1 <= j < p.     *)
C16_Step ==
    (LiftStep /\ EvalMod(Deriv(f), sols[k], p) = 0) =>
        new_sols' = IF IsRootMod(f, sols[k], Pow(p, i + 1))
                    THEN Append(new_sols, sols[k])
                    ELSE new_sols

C16_SingularKeptOrDropped == [][C16_Step]_vars

(* a round has ended in which a singular residue was kept while another    *)
(* of its extensions, a root as well, is not in the list                   *)
C16_Witness ==
    /\ IsPrime(p) /\ pc = "loop" /\ i >= 2
    /\ \E j \in 1..Len(sols) :
          /\ EvalMod(Deriv(f), sols[j], p) = 0
          /\ sols[j] < Pow(p, i - 1)
          /\ IsRootMod(f, sols[j] + Pow(p, i - 1), Pow(p, i))
          /\ (sols[j] + Pow(p, i - 1)) \notin Range(sols)

(* the extensions of s to level i+1 that are roots modulo p^(i+1) *)
RootExtensions(s) ==
    {x \in {s + j * Pow(p, i) : j \in 0..(p - 1)} :
        IsRootMod(f, x, Pow(p, i + 1))}

(* C17: in the round from level i to i+1, for a residue s with             *)
(* f(s) = 0 mod p^i and d = f'(s) mod p # 0, the appended value            *)
(* s + t*p^i is the one s' in [0, p^(i+1)) with s' = s mod p^i and         *)
(* f(s') = 0 mod p^(i+1), and p^i divides f(s) mod p^(i+1) exactly.        *)
C17_Step ==
    (LiftStep /\ 0 <= sols[k] /\ sols[k] < Pow(p, i)
        /\ IsRootMod(f, sols[k], Pow(p, i))
        /\ EvalMod(Deriv(f), sols[k], p) # 0) =>
        /\ Len(new_sols') = Len(new_sols) + 1
        /\ RootExtensions(sols[k]) = {new_sols'[Len(new_sols')]}
        /\ EvalMod(f, sols[k], Pow(p, i + 1)) % Pow(p, i) = 0

C17_LiftIsTheUniqueExtension == [][C17_Step]_vars

C17_Witness ==
    /\ IsPrime(p) /\ pc = "body" /\ i >= 2 /\ k > 1
    /\ EvalMod(Deriv(f), sols[k - 1], p) > 1
    /\ Len(new_sols) >= 1
    /\ new_sols[Len(new_sols)] >= 2 * Pow(p, i)

(* C18: the residue list a lift round goes through has at most p elements. *)
C18_AtMostPResidues == AtLevel => Len(sols) <= p

C18_Witness == IsPrime(p) /\ pc = "body" /\ rounds >= 2 /\ Len(sols) = p

NoDuplicates(ss) == \A a, b \in 1..Len(ss) : ss[a] = ss[b] => a = b

(* C19: no residue occurs twice in the list of a level, each residue of a  *)
(* level yields at most one residue of the next, and the list of the next  *)
(* level is no longer than that of the level before.                       *)
C19_Lists ==
    AtLevel =>
        /\ NoDuplicates(sols)
        /\ pc = "body" => (NoDuplicates(new_sols) /\ Len(new_sols) <= k - 1)

C19_Step ==
    /\ LiftStep => Len(new_sols') \in {Len(new_sols), Len(new_sols) + 1}
    /\ (pc = "body" /\ pc' = "loop") => Len(sols') <= Len(sols)

C19_NoDuplicatesNoGrowth == []C19_Lists /\ [][C19_Step]_vars

C19_Witness ==
    /\ IsPrime(p) /\ pc = "loop" /\ i = 3 /\ Len(sols) >= 1
    /\ Len(sols) < Cardinality(BruteForceRoots(f, p))

(* C20: every element of the list hensel_lift built is an integer, the     *)
(* final filter removes nothing, check_irrational is false on every        *)
(* returned element and the driver never ends in its ValueError.           *)
C20_FilterKeepsAll ==
    /\ AtLevel => \A j \in 1..Len(sols) : sols[j] \in Int
    /\ pc = "done" =>
          /\ result = sols
          /\ \A j \in 1..Len(result) : ~check_irrational(Real(result[j]))
          /\ MainOutcome(result) # "ValueError"
    /\ caller = "main" => out # "ValueError"

C20_Witness == IsPrime(p) /\ pc = "done" /\ n >= 2 /\ Len(result) >= 3

---------------------------------------------------------------------------
(* hensel_lift against the brute-force scan of verify_3adic.py *)

C21_Case == f = CubeMinus3 /\ p = 3 /\ n \in 1..3 /\ pc = "done"

(* C21: for f = x^3 - 3 and p = 3, for each n in {1, 2, 3} the list        *)
(* returned by hensel_lift(f, 3, n) equals the list of the brute-force     *)
(* scan hensel_step(0, 3, n) over all x in [0, 3^n).                       *)
C21_MatchesBruteForce == C21_Case => result = hensel_step(0, 3, n)

C21_Witness == C21_Case /\ n = 3 /\ rounds = 2 /\ result = <<>>

(* the levels simulate_hensel_lifting has scanned so far *)
Simulated == IF caller = "verify_3adic" THEN Len(drv.solutions) ELSE 0

(* C22 as stated: at every level n in {1, 2, 3} the scan of                *)
(* simulate_hensel_lifting finds no solution of x^3 = 3 mod 3^n.           *)
C22_AsStated == \A j \in 1..Simulated : drv.solutions[j] = <<>>

(* C22: the scan of simulate_hensel_lifting finds the one solution x = 0   *)
(* at level n = 1 (0^3 - 3 is a multiple of 3) and no solution at the      *)
(* levels n = 2 and n = 3.                                                 *)
C22_OnlyLevelOneHasASolution ==
    \A j \in 1..Simulated :
        drv.solutions[j] = IF SimLevels[j] = 1 THEN <<0>> ELSE <<>>

C22_Witness == Simulated = 3 /\ pc = "minkowski"

(* C23: check_determinant_constraint returns False for every k it is       *)
(* called with: for all a, b, c, d in 1..9 with det = a*d - b*c != 0 the   *)
(* computed valuation is >= 0, so the violation branch is never reached.   *)
C23_NoViolation ==
    caller = "verify_3adic" =>
        /\ \A j \in 1..Len(drv.violations) : ~drv.violations[j]
        /\ pc = "minkowski" =>
              \A a \in 1..(max_search - 1), b \in 1..(max_search - 1),
                 c \in 1..(max_search - 1), d \in 1..(max_search - 1) :
                    a * d - b * c # 0 => v_3(Abs(a * d - b * c)) >= 0

C23_Witness ==
    caller = "verify_3adic" /\ pc = "summary"
        /\ Len(drv.violations) = Len(MinkowskiKs)

(* C24: a candidate k is reported valid only if it satisfies both the      *)
(* 3-adic constraint (k a multiple of 3) and the Ginzburg constraint       *)
(* (k > 0 and k == 3).                                                     *)
C24_ValidOnlyIfBoth ==
    caller = "verify_3adic" =>
        \A j \in 1..Len(drv.valid_k) :
            basic_3adic(drv.valid_k[j]) /\ ginzburg_valid(drv.valid_k[j])

---------------------------------------------------------------------------
(* validate_all.py: run_script and the loop of main() *)

InValidateAll == caller = "validate_all"

(* the validations main() has recorded so far *)
Recorded == IF InValidateAll THEN Len(drv.results) ELSE 0

(* the j-th recorded result belongs to the j-th listed validation, and a   *)
(* missing script or a caught exception is recorded as failed              *)
C25_Records ==
    InValidateAll =>
        /\ Recorded = drv.idx - 1
        /\ Recorded <= NumValidations
        /\ \A j \in 1..Recorded :
              /\ drv.results[j][1] = j
              /\ drv.printed[j] \in {"[FAIL] Script not found", "[FAIL] failed"}
                     => ~drv.results[j][2]
        /\ pc = "exit" => Recorded = NumValidations

(* C25: every listed validation gets exactly one recorded result, in list  *)
(* order; a missing script and an exception of a script are recorded as    *)
(* failed, and neither keeps the remaining validations from running: the   *)
(* loop always ends with all results recorded.                             *)
C25_OneResultEach ==
    /\ []C25_Records
    /\ InValidateAll ~> (pc = "exit" /\ Recorded = NumValidations)

C25_Witness ==
    /\ InValidateAll /\ pc = "exit" /\ Recorded = NumValidations
    /\ drv.printed[1] = "[FAIL] Script not found"
    /\ drv.printed[2] = "[FAIL] failed"
    /\ drv.printed[3] = "[OK]" /\ drv.results[3][2]

(* C26: when run_script reports "[OK] ... completed successfully" for a    *)
(* script, the code under the script's __main__ guard has been executed.   *)
C26_OkMeansMainRan ==
    InValidateAll =>
        \A j \in 1..Len(drv.printed) : drv.printed[j] = "[OK]" => drv.main_ran[j]

(* C27: run_script leaves the working directory unchanged: once it has     *)
(* returned, after a success as after an exception, the directory is the   *)
(* one in effect when it was called.                                       *)
C27_DirectoryRestored ==
    (InValidateAll /\ pc \in {"validations", "exit"}) => drv.cwd = drv.entry_cwd

C27_Witness ==
    /\ InValidateAll /\ pc = "validations" /\ Recorded = 2
    /\ drv.printed = <<"[OK]", "[FAIL] failed">>
    /\ drv.script_dir # drv.entry_cwd
    /\ drv.cwd = drv.original_dir

---------------------------------------------------------------------------
(* susy_hit_interface.py *)

(* C28: run_calculation never raises and always returns a dict with the    *)
(* keys 'alpha_s_mz', 'dual_coxeter', 'casimir_adjoint' and                *)
(* 'casimir_fundamental' that calculate_su3_parameters reads, on every     *)
(* path, that of a present and parsed output file included.                *)
C28_AlwaysUsable ==
    (caller = "susy_hit" /\ drv.returned) =>
        /\ ReadKeys \subseteq drv.results
        /\ out # "KeyError"

====
